---- MODULE Spec2Model ----
(***************************************************************************)
(* Model of src/script.js: the meal-analysis request pipeline              *)
(* (getNutritionalInfo, handleLogMeal) and the in-memory nutrition ledger  *)
(* (dailyLog, calorieGoal, updateDashboard, renderMealLog and the click /  *)
(* input handlers).                                                        *)
(*                                                                         *)
(* Conventions.  JavaScript strings that the code parses or formats are    *)
(* sequences of one-character strings.  JavaScript arrays are TLA+         *)
(* sequences, so JS position i is TLA+ position i + 1.  Numbers delivered  *)
(* by the remote service are non-negative integers (the unit is left       *)
(* open: the code only adds, compares and divides them).                   *)
(***************************************************************************)
EXTENDS Integers, Sequences, FiniteSets

\* ------------------------------------------------------------------ bounds
\* Longest ledger the model builds.
MaxLog == 2
\* Number of handleLogMeal activations the model can hold at the same time.
MaxCalls == 2

\* ------------------------------------------------------- program constants
maxAttempts == 5
DefaultCalorieGoal == 2000

\* ------------------------------------------------------------ text helpers
DigitChars == <<"0", "1", "2", "3", "4", "5", "6", "7", "8", "9">>

IsDigit(ch) == \E i \in 1..10 : DigitChars[i] = ch

DigitVal(ch) == (CHOOSE i \in 1..10 : DigitChars[i] = ch) - 1

IsSpace(ch) == ch = " "

RECURSIVE trimStart(_)
trimStart(s) ==
    IF s # <<>> /\ IsSpace(Head(s)) THEN trimStart(Tail(s)) ELSE s

RECURSIVE trimEnd(_)
trimEnd(s) ==
    IF s # <<>> /\ IsSpace(s[Len(s)])
    THEN trimEnd(SubSeq(s, 1, Len(s) - 1))
    ELSE s

\* Variant: the text is taken as typed.
trim_Missing(s) == s

\* String.prototype.trim
trim(s) == trimEnd(trimStart(s))

\* The longest prefix of s made of decimal digits.
RECURSIVE DigitPrefix(_)
DigitPrefix(s) ==
    IF s # <<>> /\ IsDigit(Head(s))
    THEN <<Head(s)>> \o DigitPrefix(Tail(s))
    ELSE <<>>

RECURSIVE DigitsValue(_)
DigitsValue(ds) ==
    IF ds = <<>> THEN 0
    ELSE 10 * DigitsValue(SubSeq(ds, 1, Len(ds) - 1)) + DigitVal(ds[Len(ds)])

\* A JavaScript number that is either NaN or an integer.
NaN == [isNaN |-> TRUE, val |-> 0]
Num(n) == [isNaN |-> FALSE, val |-> n]

\* parseInt(s, 10): leading white space is skipped, one sign is accepted,
\* then the longest run of digits is read; no digit at all gives NaN.
parseInt(s) ==
    LET t == trimStart(s)
        neg == t # <<>> /\ Head(t) = "-"
        signed == t # <<>> /\ Head(t) \in {"-", "+"}
        rest == IF signed THEN Tail(t) ELSE t
        ds == DigitPrefix(rest)
    IN  IF ds = <<>> THEN NaN
        ELSE Num(IF neg THEN 0 - DigitsValue(ds) ELSE DigitsValue(ds))

\* `${index}` for an array index (a non-negative integer).
RECURSIVE IndexToString(_)
IndexToString(n) ==
    IF n < 10 THEN <<DigitChars[n + 1]>>
    ELSE IndexToString(n \div 10) \o <<DigitChars[(n % 10) + 1]>>

\* x || 0 for a NaN-or-integer x: NaN and 0 are falsy.
OrZero(x) == IF x.isNaN \/ x.val = 0 THEN 0 ELSE x.val

Min(a, b) == IF a <= b THEN a ELSE b
Max(a, b) == IF a >= b THEN a ELSE b

\* ------------------------------------------------- values from the service
\* Three breakdowns: a plain one, the degenerate one (all zero, no items),
\* and one that lacks total_fat_g, which the dashboard reads as 0.
EggsBreakdown ==
    [meal_summary |-> [total_calories |-> 140, total_protein_g |-> 12,
                       total_carbs_g |-> 1, total_fat_g |-> 10],
     food_items |-> <<[name |-> "egg", quantity |-> "2", calories |-> 140]>>]

WaterBreakdown ==
    [meal_summary |-> [total_calories |-> 0, total_protein_g |-> 0,
                       total_carbs_g |-> 0, total_fat_g |-> 0],
     food_items |-> <<>>]

FeastBreakdown ==
    [meal_summary |-> [total_calories |-> 2500, total_protein_g |-> 90,
                       total_carbs_g |-> 300],
     food_items |-> <<[name |-> "buffet", quantity |-> "1", calories |-> 2500]>>]

Breakdowns == {EggsBreakdown, WaterBreakdown, FeastBreakdown}

\* JSON values that parse but are no breakdown.
JSNull == [jsnull |-> TRUE]
NoSummaryValue == [food_items |-> <<>>]

\* ---------------------------------------------------------------- ledger
VARIABLES
    dailyLog,            \* line 20: the ordered meals {description, analysis}
    calorieGoal,         \* line 21
    mealInput,           \* mealInput.value
    logMealBtnDisabled,  \* logMealBtn.disabled
    errorMessage,        \* "hidden", or the text errorMessage shows
    mealLogContainer,    \* the rendered list: one entry and remove button per meal
    totals,              \* the totals updateDashboard computed and displays
    progressBarWidth,    \* progressBar.style.width in percent, a fraction num/den
    progressBarClass,    \* the colour class of progressBar
    calls                \* the activations of handleLogMeal

vars == <<dailyLog, calorieGoal, mealInput, logMealBtnDisabled, errorMessage,
          mealLogContainer, totals, progressBarWidth, progressBarClass, calls>>

\* summary.field || 0
FieldOrZero(summary, f) ==
    IF f \in DOMAIN summary /\ summary[f] # 0 THEN summary[f] ELSE 0

ZeroTotals == [calories |-> 0, protein |-> 0, carbs |-> 0, fat |-> 0]

\* The reducer of updateDashboard, lines 159-165.
RECURSIVE reduceTotals(_, _)
reduceTotals(log, acc) ==
    IF log = <<>> THEN acc
    ELSE LET s == Head(log).analysis.meal_summary
         IN  reduceTotals(Tail(log),
                 [calories |-> acc.calories + FieldOrZero(s, "total_calories"),
                  protein |-> acc.protein + FieldOrZero(s, "total_protein_g"),
                  carbs |-> acc.carbs + FieldOrZero(s, "total_carbs_g"),
                  fat |-> acc.fat + FieldOrZero(s, "total_fat_g")])

computeTotals(log) == reduceTotals(log, ZeroTotals)

\* Variant: the percentage is not capped at 100.
progressPercentage_Uncapped(calories, goal) ==
    IF goal > 0 THEN [num |-> calories * 100, den |-> goal]
    ELSE [num |-> 0, den |-> 1]

\* Math.min((calories / goal) * 100, 100) when goal > 0, else 0; the exact
\* quotient is kept as the fraction num/den.
progressPercentage(calories, goal) ==
    IF goal > 0
    THEN LET scaled == [num |-> calories * 100, den |-> goal]
         IN  IF scaled.num <= 100 * scaled.den THEN scaled
             ELSE [num |-> 100, den |-> 1]
    ELSE [num |-> 0, den |-> 1]

progressColour(calories, goal) ==
    IF calories > goal THEN "bg-red-500" ELSE "bg-green-500"

\* renderMealLog: one element per meal, its button carrying data-index.
renderMealLog(log) ==
    [i \in 1..Len(log) |->
        [description |-> log[i].description,
         analysis |-> log[i].analysis,
         dataIndex |-> IndexToString(i - 1)]]

updateDashboard(log, goal) ==
    /\ totals' = computeTotals(log)
    /\ progressBarWidth' = progressPercentage(computeTotals(log).calories, goal)
    /\ progressBarClass' = progressColour(computeTotals(log).calories, goal)

\* Variant: only the dashboard is refreshed, the list is left as rendered.
updateUI_DashboardOnly(log, goal) ==
    /\ UNCHANGED mealLogContainer
    /\ updateDashboard(log, goal)

updateUI(log, goal) ==
    /\ mealLogContainer' = renderMealLog(log)
    /\ updateDashboard(log, goal)

\* Variant: splice(start) without a count, which removes up to the end.
splice1_ToTheEnd(arr, start) ==
    LET len == Len(arr)
        relativeStart == IF start.isNaN THEN 0 ELSE start.val
        actualStart == IF relativeStart < 0 THEN Max(len + relativeStart, 0)
                       ELSE Min(relativeStart, len)
    IN  SubSeq(arr, 1, actualStart)

\* Array.prototype.splice(start, 1) on a NaN-or-integer start; the array
\* that is left.
splice1(arr, start) ==
    LET len == Len(arr)
        relativeStart == IF start.isNaN THEN 0 ELSE start.val
        actualStart == IF relativeStart < 0 THEN Max(len + relativeStart, 0)
                       ELSE Min(relativeStart, len)
        deleteCount == Min(1, len - actualStart)
    IN  SubSeq(arr, 1, actualStart) \o SubSeq(arr, actualStart + deleteCount + 1, len)

\* -------------------------------------------------------- remote responses
\* Text payloads of a response: empty, not JSON, and JSON for null, for an
\* object without meal_summary, and for each breakdown.
NoSummaryText == "{\"food_items\":[]}"
EggsText == "eggs.json"
WaterText == "water.json"
FeastText == "feast.json"

Texts == {"", "{bad", "null", NoSummaryText, EggsText, WaterText, FeastText}

\* Whether JSON.parse(text) returns (TRUE) or throws a SyntaxError (FALSE).
JSONvalid(text) == text \in {"null", NoSummaryText, EggsText, WaterText, FeastText}

JSONparse(text) ==
    CASE text = "null" -> JSNull
      [] text = NoSummaryText -> NoSummaryValue
      [] text = EggsText -> EggsBreakdown
      [] text = WaterText -> WaterBreakdown
      [] text = FeastText -> FeastBreakdown

\* What response.json() delivers: a rejection (the body is no JSON), or an
\* envelope with a list of candidates.
NotJsonBody == [notJson |-> TRUE]
NoBody == [none |-> TRUE]
Candidate(text) == [content |-> [parts |-> <<[text |-> text]>>]]

Bodies ==
    {NotJsonBody, [candidates |-> <<>>]}
        \cup {[candidates |-> <<Candidate(t)>>] : t \in Texts}

IsJsonBody(body) == "candidates" \in DOMAIN body

\* candidate && candidate.content?.parts?.[0]?.text  (line 106)
HasText(body) ==
    /\ Len(body.candidates) > 0
    /\ Len(body.candidates[1].content.parts) > 0
    /\ body.candidates[1].content.parts[1].text # ""

TextOf(body) == body.candidates[1].content.parts[1].text

Statuses == {200, 404, 429, 500}

\* response.ok
ResponseOk(status) == status >= 200 /\ status <= 299

\* Variant: every status from 400 on is retried.
Retryable_AllErrors(status) == status >= 400

\* line 88
Retryable(status) == status = 429 \/ status >= 500

\* Variant: the loop test is off by one (attempt <= maxAttempts).
LoopContinues_OffByOne(attempt) == attempt <= maxAttempts

\* line 77, the loop condition
LoopContinues(attempt) == attempt < maxAttempts

\* Variant: an empty food_items array counts as missing.
ShapeAccepted_EmptyIsFalsy(analysis) ==
    /\ analysis # JSNull
    /\ "meal_summary" \in DOMAIN analysis
    /\ "food_items" \in DOMAIN analysis
    /\ analysis.food_items # <<>>

\* analysis && analysis.meal_summary && analysis.food_items  (line 207);
\* objects and arrays are truthy.
ShapeAccepted(analysis) ==
    /\ analysis # JSNull
    /\ "meal_summary" \in DOMAIN analysis
    /\ "food_items" \in DOMAIN analysis

\* ------------------------------------------------------------------ inputs
CallIds == 1..MaxCalls

\* What the user may have typed into the meal field.
MealInputs == {<<" ">>, <<" ", "e", " ">>}

\* What the user may type into the goal field.
GoalInputs ==
    {<<>>, <<"a">>, <<"0">>, <<"-", "5">>, <<" ", "2", "0", "0", "0", ".", "5">>}

\* data-index values of a click event that does not come from the rendered list.
DatasetIndexInputs ==
    {<<>>, <<"x">>, <<"-", "1">>, <<"-", "9">>, <<"0">>, <<"1">>, <<"2">>,
     <<"3">>, <<"7">>}

NoOutcome == [kind |-> "none", value |-> JSNull]
Returned(value) == [kind |-> "ok", value |-> value]
Thrown(kind) == [kind |-> kind, value |-> JSNull]

\* One activation of handleLogMeal / getNutritionalInfo.  pc is where it is
\* suspended: "idle" (not running), "fetch" (line 78), "delay" (line 91),
\* "json" (line 103).  status is response.status (0: no response yet).
\* delay is the duration in ms of the pending timer (0: none pending).
\* requests (fetches issued), delays (timers set), history (the statuses
\* received, in order, 0 standing for a fetch that rejected), body and
\* outcome record what the activation did; startLen is the length of the
\* ledger when a running activation started, and shrankDuring tells
\* whether the ledger was shorter than that when the activation ended.
IdleCall ==
    [pc |-> "idle", description |-> <<>>, attempt |-> 0, status |-> 0,
     delay |-> 0, requests |-> 0, delays |-> 0, history |-> <<>>,
     body |-> NoBody, outcome |-> NoOutcome, startLen |-> 0,
     shrankDuring |-> FALSE]

InFlight == {c \in CallIds : calls[c].pc # "idle"}

Init ==
    /\ dailyLog = <<>>
    /\ calorieGoal = DefaultCalorieGoal
    /\ mealInput = <<>>
    /\ logMealBtnDisabled = FALSE
    /\ errorMessage = "hidden"
    /\ mealLogContainer = renderMealLog(<<>>)
    /\ totals = computeTotals(<<>>)
    /\ progressBarWidth = progressPercentage(0, DefaultCalorieGoal)
    /\ progressBarClass = progressColour(0, DefaultCalorieGoal)
    /\ calls = [c \in CallIds |-> IdleCall]

dashboardVars == <<totals, progressBarWidth, progressBarClass>>
uiVars == <<mealLogContainer, totals, progressBarWidth, progressBarClass>>

\* ----------------------------------------------------------------- actions
\* The user edits the meal field.
typeMeal(text) ==
    /\ mealInput' = text
    /\ UNCHANGED <<dailyLog, calorieGoal, logMealBtnDisabled, errorMessage,
                   uiVars, calls>>

\* Variant: the button is enabled again after the try block instead of in
\* finally, so a throw skips it.
finishLogMeal_NoFinally(c, call, outcome) ==
    /\ calls' = [calls EXCEPT ![c] =
                    [call EXCEPT !.pc = "idle", !.outcome = outcome,
                                 !.startLen = 0,
                                 !.shrankDuring = Len(dailyLog) < call.startLen]]
    /\ logMealBtnDisabled' = (outcome.kind # "ok")
    /\ UNCHANGED calorieGoal
    /\ IF outcome.kind = "ok" /\ ShapeAccepted(outcome.value)
       THEN /\ dailyLog' = Append(dailyLog,
                    [description |-> call.description, analysis |-> outcome.value])
            /\ updateUI(dailyLog', calorieGoal)
            /\ mealInput' = <<>>
            /\ UNCHANGED errorMessage
       ELSE /\ errorMessage' =
                    IF outcome.kind = "ok"
                    THEN "The AI could not analyze this meal. Please try rephrasing."
                    ELSE "An error occurred while analyzing the meal. Please check the console and try again."
            /\ UNCHANGED <<dailyLog, mealInput, uiVars>>

\* The rest of handleLogMeal once getNutritionalInfo has returned or thrown
\* (lines 207-221); call is the activation's record at that moment.
finishLogMeal(c, call, outcome) ==
    /\ calls' = [calls EXCEPT ![c] =
                    [call EXCEPT !.pc = "idle", !.outcome = outcome,
                                 !.startLen = 0,
                                 !.shrankDuring = Len(dailyLog) < call.startLen]]
    /\ logMealBtnDisabled' = FALSE
    /\ UNCHANGED calorieGoal
    /\ IF outcome.kind = "ok" /\ ShapeAccepted(outcome.value)
       THEN /\ dailyLog' = Append(dailyLog,
                    [description |-> call.description, analysis |-> outcome.value])
            /\ updateUI(dailyLog', calorieGoal)
            /\ mealInput' = <<>>
            /\ UNCHANGED errorMessage
       ELSE /\ errorMessage' =
                    IF outcome.kind = "ok"
                    THEN "The AI could not analyze this meal. Please try rephrasing."
                    ELSE "An error occurred while analyzing the meal. Please check the console and try again."
            /\ UNCHANGED <<dailyLog, mealInput, uiVars>>

\* Variant: the button is not disabled while the analysis runs.
handleLogMeal_StaysEnabled(c) ==
    /\ ~logMealBtnDisabled
    /\ calls[c].pc = "idle"
    /\ \A d \in CallIds : d < c => calls[d].pc # "idle"
    /\ LET description == trim(mealInput)
       IN  IF description = <<>>
           THEN /\ errorMessage' = "Please enter a meal description."
                /\ UNCHANGED <<dailyLog, calorieGoal, mealInput,
                               logMealBtnDisabled, uiVars, calls>>
           ELSE /\ Len(dailyLog) + Cardinality(InFlight) < MaxLog
                /\ errorMessage' = "hidden"
                /\ calls' = [calls EXCEPT ![c] =
                       [pc |-> "fetch", description |-> description,
                        attempt |-> 0, status |-> 0, delay |-> 0,
                        requests |-> 1, delays |-> 0, history |-> <<>>,
                        body |-> NoBody, outcome |-> NoOutcome,
                        startLen |-> Len(dailyLog), shrankDuring |-> FALSE]]
                /\ UNCHANGED <<dailyLog, calorieGoal, mealInput,
                               logMealBtnDisabled, uiVars>>

\* A click on logMealBtn (a disabled button dispatches no click): lines
\* 192-206 and getNutritionalInfo up to its first fetch (line 78).
handleLogMeal(c) ==
    /\ ~logMealBtnDisabled
    /\ calls[c].pc = "idle"
    /\ \A d \in CallIds : d < c => calls[d].pc # "idle"
    /\ LET description == trim(mealInput)
       IN  IF description = <<>>
           THEN /\ errorMessage' = "Please enter a meal description."
                /\ UNCHANGED <<dailyLog, calorieGoal, mealInput,
                               logMealBtnDisabled, uiVars, calls>>
           ELSE /\ Len(dailyLog) + Cardinality(InFlight) < MaxLog
                /\ logMealBtnDisabled' = TRUE
                /\ errorMessage' = "hidden"
                /\ calls' = [calls EXCEPT ![c] =
                       [pc |-> "fetch", description |-> description,
                        attempt |-> 0, status |-> 0, delay |-> 0,
                        requests |-> 1, delays |-> 0, history |-> <<>>,
                        body |-> NoBody, outcome |-> NoOutcome,
                        startLen |-> Len(dailyLog), shrankDuring |-> FALSE]]
                /\ UNCHANGED <<dailyLog, calorieGoal, mealInput, uiVars>>

RECURSIVE Pow2(_)
Pow2(k) == IF k = 0 THEN 1 ELSE 2 * Pow2(k - 1)

\* Math.random() * 1000 lies in [0, 1000); its two ends, in whole ms.
Jitters == {0, 999}

\* line 90
backoffDelay(attempt, jitter) == Pow2(attempt) * 1000 + jitter

\* Variant: the timer is not awaited, the next attempt starts at once.
startDelay_NotAwaited(c, status) ==
    /\ calls' = [calls EXCEPT ![c].pc = "fetch", ![c].status = status,
                              ![c].history = Append(@, status),
                              ![c].attempt = @ + 1,
                              ![c].requests = @ + 1]
    /\ UNCHANGED <<dailyLog, calorieGoal, mealInput, logMealBtnDisabled,
                   errorMessage, uiVars>>

\* A retryable response: the backoff timer is set (lines 88-91).
startDelay(c, status) ==
    /\ \E jitter \in Jitters :
           calls' = [calls EXCEPT ![c].pc = "delay", ![c].status = status,
                                  ![c].history = Append(@, status),
                                  ![c].delay = backoffDelay(calls[c].attempt, jitter),
                                  ![c].delays = @ + 1]
    /\ UNCHANGED <<dailyLog, calorieGoal, mealInput, logMealBtnDisabled,
                   errorMessage, uiVars>>

\* fetch resolves with a response of the given status (lines 78-96).
fetchResolves(c, status) ==
    /\ calls[c].pc = "fetch"
    /\ IF ResponseOk(status)
       THEN /\ calls' = [calls EXCEPT ![c].pc = "json", ![c].status = status,
                                      ![c].history = Append(@, status)]
            /\ UNCHANGED <<dailyLog, calorieGoal, mealInput, logMealBtnDisabled,
                           errorMessage, uiVars>>
       ELSE IF Retryable(status)
       THEN startDelay(c, status)
       ELSE finishLogMeal(c, [calls[c] EXCEPT !.status = status,
                                              !.history = Append(@, status)],
                          Thrown("ClientRejected"))

\* Variant: a rejected fetch is treated like a retryable response.
fetchRejects_Retried(c) ==
    /\ calls[c].pc = "fetch"
    /\ \E jitter \in Jitters :
           calls' = [calls EXCEPT ![c].pc = "delay",
                                  ![c].history = Append(@, 0),
                                  ![c].delay = backoffDelay(calls[c].attempt, jitter),
                                  ![c].delays = @ + 1]
    /\ UNCHANGED <<dailyLog, calorieGoal, mealInput, logMealBtnDisabled,
                   errorMessage, uiVars>>

\* fetch rejects: no response at all (a network-level failure).
fetchRejects(c) ==
    /\ calls[c].pc = "fetch"
    /\ finishLogMeal(c, [calls[c] EXCEPT !.history = Append(@, 0)],
                     Thrown("NetworkError"))

\* Variant: the promise around setTimeout is never resolved.
timerFires_NeverResolved(c) ==
    /\ FALSE
    /\ UNCHANGED vars

\* The backoff timer fires: attempt++ and the loop test (lines 92, 77, 98).
timerFires(c) ==
    /\ calls[c].pc = "delay"
    /\ LET next == calls[c].attempt + 1
       IN  IF LoopContinues(next)
           THEN /\ calls' = [calls EXCEPT ![c].pc = "fetch", ![c].attempt = next,
                                          ![c].delay = 0,
                                          ![c].requests = @ + 1]
                /\ UNCHANGED <<dailyLog, calorieGoal, mealInput,
                               logMealBtnDisabled, errorMessage, uiVars>>
           ELSE finishLogMeal(c, [calls[c] EXCEPT !.attempt = next, !.delay = 0],
                              Thrown("ExhaustedRetries"))

\* What getNutritionalInfo makes of the body of a 2xx response (103-111).
parseBody(body) ==
    IF ~IsJsonBody(body) THEN Thrown("BodyNotJson")
    ELSE IF ~HasText(body) THEN Thrown("MalformedEnvelope")
    ELSE IF ~JSONvalid(TextOf(body)) THEN Thrown("MalformedPayload")
    ELSE Returned(JSONparse(TextOf(body)))

\* Variant: a body that cannot be used is retried after a delay.
jsonResolves_RetryUnusable(c, body) ==
    /\ calls[c].pc = "json"
    /\ IF parseBody(body).kind = "ok"
       THEN finishLogMeal(c, [calls[c] EXCEPT !.body = body], parseBody(body))
       ELSE /\ calls' = [calls EXCEPT ![c].pc = "delay", ![c].body = body,
                                      ![c].delays = @ + 1]
            /\ UNCHANGED <<dailyLog, calorieGoal, mealInput,
                           logMealBtnDisabled, errorMessage, uiVars>>

\* response.json() settles (line 103), then lines 105-111 and 207-221.
jsonResolves(c, body) ==
    /\ calls[c].pc = "json"
    /\ finishLogMeal(c, [calls[c] EXCEPT !.body = body], parseBody(body))

\* input event of the goal field.
handleGoalChange(value) ==
    /\ calorieGoal' = OrZero(parseInt(value))
    /\ updateDashboard(dailyLog, calorieGoal')
    /\ UNCHANGED <<dailyLog, mealInput, logMealBtnDisabled, errorMessage,
                   mealLogContainer, calls>>

\* Variant: clearing is refused while an analysis is outstanding.
handleClearLog_OnlyWhenIdle(confirmed) ==
    /\ InFlight = {}
    /\ IF confirmed
       THEN /\ dailyLog' = <<>>
            /\ updateUI(dailyLog', calorieGoal)
            /\ UNCHANGED <<calorieGoal, mealInput, logMealBtnDisabled,
                           errorMessage, calls>>
       ELSE UNCHANGED vars

\* click on clearLogBtn; confirmed is what confirm() answers.
handleClearLog(confirmed) ==
    IF confirmed
    THEN /\ dailyLog' = <<>>
         /\ updateUI(dailyLog', calorieGoal)
         /\ UNCHANGED <<calorieGoal, mealInput, logMealBtnDisabled,
                        errorMessage, calls>>
    ELSE UNCHANGED vars

\* Variant: the list is rendered again but the dashboard is not refreshed.
handleRemoveMeal_RenderOnly(datasetIndex) ==
    /\ dailyLog' = splice1(dailyLog, parseInt(datasetIndex))
    /\ mealLogContainer' = renderMealLog(dailyLog')
    /\ UNCHANGED <<calorieGoal, mealInput, logMealBtnDisabled, errorMessage,
                   calls, dashboardVars>>

\* click on a remove button whose data-index attribute is datasetIndex.
handleRemoveMeal(datasetIndex) ==
    /\ dailyLog' = splice1(dailyLog, parseInt(datasetIndex))
    /\ updateUI(dailyLog', calorieGoal)
    /\ UNCHANGED <<calorieGoal, mealInput, logMealBtnDisabled, errorMessage,
                   calls>>

\* ---------------------------------------------------------- specifications
\* Every step but a removal.
Step ==
    \/ \E text \in MealInputs : typeMeal(text)
    \/ \E c \in CallIds : handleLogMeal(c)
    \/ \E c \in CallIds, status \in Statuses : fetchResolves(c, status)
    \/ \E c \in CallIds : fetchRejects(c)
    \/ \E c \in CallIds : timerFires(c)
    \/ \E c \in CallIds, body \in Bodies : jsonResolves(c, body)
    \/ \E value \in GoalInputs : handleGoalChange(value)
    \/ \E confirmed \in BOOLEAN : handleClearLog(confirmed)

\* The page as the user drives it: a removal is a click on a rendered button.
clickRemove ==
    \E i \in 1..Len(mealLogContainer) :
        handleRemoveMeal(mealLogContainer[i].dataIndex)

Next == Step \/ clickRemove

Spec == Init /\ [][Next]_vars

\* The page under the assumption that every request is answered (or fails),
\* every body read settles and every backoff timer fires.
Fairness ==
    \A c \in CallIds :
        /\ WF_vars((\E status \in Statuses : fetchResolves(c, status))
                      \/ fetchRejects(c))
        /\ WF_vars(timerFires(c))
        /\ WF_vars(\E body \in Bodies : jsonResolves(c, body))

SpecFair == Init /\ [][Next]_vars /\ Fairness

\* The handlers as entry points: handleRemoveMeal receives an event whose
\* data-index is any text.
removeAny == \E idx \in DatasetIndexInputs : handleRemoveMeal(idx)

NextAnyIndex == Step \/ removeAny

SpecAnyIndex == Init /\ [][NextAnyIndex]_vars

\* ------------------------------------------------------------- properties
EggsMeal == [description |-> <<"e">>, analysis |-> EggsBreakdown]
WaterMeal == [description |-> <<"e">>, analysis |-> WaterBreakdown]
FeastMeal == [description |-> <<"e">>, analysis |-> FeastBreakdown]

\* The sum of field f over the summaries of the first n meals of log; a
\* summary without the field contributes nothing.
RECURSIVE SumField(_, _, _)
SumField(log, f, n) ==
    IF n = 0 THEN 0
    ELSE LET s == log[n].analysis.meal_summary
         IN  SumField(log, f, n - 1) + (IF f \in DOMAIN s THEN s[f] ELSE 0)

LedgerSum(log) ==
    [calories |-> SumField(log, "total_calories", Len(log)),
     protein |-> SumField(log, "total_protein_g", Len(log)),
     carbs |-> SumField(log, "total_carbs_g", Len(log)),
     fat |-> SumField(log, "total_fat_g", Len(log))]

\* C1: after any sequence of additions, removals and clears the computed
\* totals are the field-wise sum of the summaries of exactly the meals now in
\* the ledger, and they are all zero whenever the ledger is empty.
C1_TotalsAreLedgerSum ==
    /\ totals = LedgerSum(dailyLog)
    /\ dailyLog = <<>> => totals = ZeroTotals

\* C1 witness: eggs was the last meal logged and is gone again while the
\* feast logged before it remains, so an addition and a removal have acted.
C1_Witness ==
    /\ calls[1].pc = "idle"
    /\ calls[1].outcome = Returned(EggsBreakdown)
    /\ dailyLog = <<FeastMeal>>
    /\ totals = [calories |-> 2500, protein |-> 90, carbs |-> 300, fat |-> 0]

\* An index inside [0, length).
InRange(index, log) == ~index.isNaN /\ index.val >= 0 /\ index.val < Len(log)

\* C2 (as claimed): a removal whose index is outside [0, length), negative
\* or not a number leaves the meal sequence unchanged.
C2_OutOfRangeRemovalKeepsLedger ==
    [][\A idx \in DatasetIndexInputs :
          (handleRemoveMeal(idx) /\ ~InRange(parseInt(idx), dailyLog))
              => dailyLog' = dailyLog]_vars

\* C3 (as claimed): a call that fails with ExhaustedRetries has made exactly
\* 5 attempts and exactly 4 delays.
C3_ExhaustedAfterFiveAttemptsFourDelays ==
    \A c \in CallIds :
        calls[c].outcome.kind = "ExhaustedRetries"
            => calls[c].requests = 5 /\ calls[c].delays = 4

\* A non-success status that is neither rate-limiting nor a server fault.
TerminalStatus(status) ==
    status > 0 /\ ~(status >= 200 /\ status <= 299) /\ status # 429 /\ status < 500

\* C4: once the latest response has a terminal status the call is over with
\* ClientRejected: no attempt and no delay follows that response (the
\* requests are the responses received, the delays are the responses before
\* it); a terminal first response means 1 attempt and 0 delays.
C4_TerminalStatusFailsAtOnce ==
    \A c \in CallIds :
        TerminalStatus(calls[c].status) =>
            /\ calls[c].pc = "idle"
            /\ calls[c].outcome.kind = "ClientRejected"
            /\ calls[c].requests = Len(calls[c].history)
            /\ calls[c].delays = Len(calls[c].history) - 1
            /\ Len(calls[c].history) = 1 =>
                   calls[c].requests = 1 /\ calls[c].delays = 0

\* C4 witness: a 404 on the first attempt.
C4_Witness ==
    \E c \in CallIds :
        /\ calls[c].history = <<404>>
        /\ calls[c].outcome.kind = "ClientRejected"
        /\ calls[c].requests = 1
        /\ calls[c].delays = 0

\* n responses that are 429 or >= 500, then a 2xx response.
RetriedThenSuccess(history, n) ==
    /\ Len(history) = n + 1
    /\ \A i \in 1..n : history[i] = 429 \/ history[i] >= 500
    /\ history[n + 1] >= 200 /\ history[n + 1] <= 299

\* The text payload that carries breakdown b.
PayloadOf(b) ==
    CASE b = EggsBreakdown -> EggsText
      [] b = WaterBreakdown -> WaterText
      [] b = FeastBreakdown -> FeastText

\* C5: when the responses so far are n retryable ones (0 <= n <= 4) followed
\* by a success, n + 1 attempts were issued and n delays occurred, and once
\* the body of that last response has been read the call returns exactly the
\* breakdown it carries.
C5_RetriesThenSuccess ==
    \A c \in CallIds : \A n \in 0..4 :
        RetriedThenSuccess(calls[c].history, n) =>
            /\ calls[c].requests = n + 1
            /\ calls[c].delays = n
            /\ \A b \in Breakdowns :
                   calls[c].body = [candidates |-> <<Candidate(PayloadOf(b))>>]
                       => calls[c].outcome = Returned(b)

\* C5 witness: responses 429, 500, 200 and the eggs breakdown returned.
C5_Witness ==
    \E c \in CallIds :
        /\ calls[c].history = <<429, 500, 200>>
        /\ calls[c].delays = 2
        /\ calls[c].outcome = Returned(EggsBreakdown)

\* C6: a call never issues more than 5 requests.
C6_AtMostFiveRequests == \A c \in CallIds : calls[c].requests <= 5

\* C6 witness: a call that did issue 5 requests.
C6_Witness == \E c \in CallIds : calls[c].requests = 5

\* A body of a 2xx response without a usable text payload: no JSON at all, no
\* candidate, an empty text, or a text that is no JSON.
EnvelopeLacksText(body) ==
    \/ body = NotJsonBody
    \/ body = [candidates |-> <<>>]
    \/ body = [candidates |-> <<Candidate("")>>]

TextIsNotJson(body) == body = [candidates |-> <<Candidate("{bad")>>]

\* C7: a 2xx response whose body lacks the text payload, or whose text is not
\* valid JSON, ends the call at once: it is over, it returned nothing, and no
\* attempt or delay followed that response.
C7_UnusableBodyFailsAtOnce ==
    \A c \in CallIds :
        (EnvelopeLacksText(calls[c].body) \/ TextIsNotJson(calls[c].body)) =>
            /\ calls[c].pc = "idle"
            /\ calls[c].outcome.kind \in
                   {"BodyNotJson", "MalformedEnvelope", "MalformedPayload"}
            /\ TextIsNotJson(calls[c].body)
                   => calls[c].outcome.kind = "MalformedPayload"
            /\ calls[c].outcome.value = JSNull
            /\ calls[c].requests = Len(calls[c].history)
            /\ calls[c].delays = Len(calls[c].history) - 1

\* C7 witness: a retried call whose 2xx response carried a text that is no JSON.
C7_Witness ==
    \E c \in CallIds :
        /\ calls[c].history = <<500, 200>>
        /\ TextIsNotJson(calls[c].body)
        /\ calls[c].outcome.kind = "MalformedPayload"

\* Call c ends in this step.
Ends(c) == calls[c].pc # "idle" /\ calls'[c].pc = "idle"

\* C8: the ledger grows only by appending the breakdown a call returns in
\* that step, it does so for every breakdown returned, a call that ends
\* without returning a breakdown leaves the ledger as it is, and meals leave
\* only through a removal or a clear (no call ends in such a step).
C8_LedgerGrowsOnlyBySuccess ==
    [][/\ Len(dailyLog') > Len(dailyLog) =>
              \E c \in CallIds :
                  /\ Ends(c)
                  /\ calls'[c].outcome.kind = "ok"
                  /\ calls'[c].outcome.value \in Breakdowns
                  /\ dailyLog' = Append(dailyLog,
                         [description |-> calls[c].description,
                          analysis |-> calls'[c].outcome.value])
       /\ \A c \in CallIds :
              (Ends(c) /\ calls'[c].outcome.kind = "ok"
                   /\ calls'[c].outcome.value \in Breakdowns)
                  => dailyLog' = Append(dailyLog,
                         [description |-> calls[c].description,
                          analysis |-> calls'[c].outcome.value])
       /\ \A c \in CallIds :
              (Ends(c) /\ ~(calls'[c].outcome.kind = "ok"
                               /\ calls'[c].outcome.value \in Breakdowns))
                  => dailyLog' = dailyLog
       /\ (dailyLog' # dailyLog /\ Len(dailyLog') <= Len(dailyLog)) =>
              /\ calls' = calls
              /\ \/ dailyLog' = <<>>
                 \/ \E i \in 1..Len(dailyLog) :
                        dailyLog' = SubSeq(dailyLog, 1, i - 1)
                                      \o SubSeq(dailyLog, i + 1, Len(dailyLog))
      ]_vars

\* C8 witness: the degenerate breakdown (no items) was returned and logged
\* behind an earlier meal.
C8_Witness ==
    /\ calls[1].pc = "idle"
    /\ calls[1].outcome = Returned(WaterBreakdown)
    /\ dailyLog = <<EggsMeal, WaterMeal>>

\* C9 (as claimed): the goal is never negative.
C9_GoalNeverNegative == calorieGoal >= 0

\* Equality and order of fractions with positive denominators.
FracEq(a, b) == a.num * b.den = b.num * a.den
FracLeq(a, b) == a.num * b.den <= b.num * a.den

\* min(100, 100 * calories / goal) as a fraction.
CappedPercent(calories, goal) ==
    IF 100 * calories >= 100 * goal THEN [num |-> 100, den |-> 1]
    ELSE [num |-> 100 * calories, den |-> goal]

\* C10: the progress shown is min(100, 100 * calories / goal) for a positive
\* goal and 0 otherwise, always within [0, 100], and the bar is red exactly
\* when the calories exceed the goal, where calories is the sum over the
\* meals now in the ledger.
C10_ProgressMatchesLedger ==
    LET calories == SumField(dailyLog, "total_calories", Len(dailyLog))
    IN  /\ progressBarWidth.den > 0
        /\ calorieGoal > 0 =>
               FracEq(progressBarWidth, CappedPercent(calories, calorieGoal))
        /\ calorieGoal <= 0 => progressBarWidth.num = 0
        /\ FracLeq([num |-> 0, den |-> 1], progressBarWidth)
        /\ FracLeq(progressBarWidth, [num |-> 100, den |-> 1])
        /\ (progressBarClass = "bg-red-500") <=> (calories > calorieGoal)
        /\ progressBarClass \in {"bg-red-500", "bg-green-500"}

\* C10 witness: goal 2000 and 2500 calories logged give 100 percent, over goal.
C10_Witness ==
    /\ calorieGoal = 2000
    /\ totals.calories = 2500
    /\ FracEq(progressBarWidth, [num |-> 100, den |-> 1])
    /\ progressBarClass = "bg-red-500"

\* after is before without its entry at JS position index: one entry less,
\* the entries in front untouched, the entries behind moved down by one.
RemovedAt(before, after, index) ==
    /\ Len(after) = Len(before) - 1
    /\ \A j \in 1..Len(after) :
           after[j] = IF j <= index THEN before[j] ELSE before[j + 1]

ScheduleBase == <<1000, 2000, 4000, 8000>>

\* C12 (as claimed): the timer set after failed attempt k (from 0) runs for
\* ScheduleBase[k + 1] = 2^k * 1000 ms plus a jitter in [0, 1000), with k
\* among 0..3, so it is longer than any timer of the attempt before; and no
\* timer has been set when the first attempt is issued.
C12_DelaysFollowSchedule ==
    \A c \in CallIds :
        /\ calls[c].pc = "delay" =>
               /\ calls[c].attempt \in 0..3
               /\ calls[c].delay - ScheduleBase[calls[c].attempt + 1] \in 0..999
               /\ calls[c].attempt >= 1 =>
                      calls[c].delay >= ScheduleBase[calls[c].attempt] + 1000
        /\ (calls[c].pc = "fetch" /\ calls[c].requests = 1) =>
               calls[c].delays = 0 /\ calls[c].delay = 0

\* C13: at most one analysis is outstanding, and while one is outstanding
\* the submit button is disabled, so that no second one can start.
C13_OneAnalysisAtATime ==
    /\ Cardinality(InFlight) <= 1
    /\ InFlight # {} => logMealBtnDisabled
    /\ InFlight # {} => \A c \in CallIds : ~ENABLED handleLogMeal(c)

\* C13 witness: an analysis waits for its backoff timer, the button disabled,
\* while the meal field holds a description that could be submitted.
C13_Witness ==
    /\ InFlight = {1}
    /\ calls[1].pc = "delay"
    /\ logMealBtnDisabled
    /\ mealInput = <<" ", "e", " ">>
    /\ dailyLog = <<>>

\* Empty or made of white space only.
Blank(text) == \A i \in 1..Len(text) : text[i] = " "

\* Not empty, and no white space at either end.
Trimmed(text) == text # <<>> /\ text[1] # " " /\ text[Len(text)] # " "

\* C14: every analysis that issued a request was given a non-empty, trimmed
\* description, and so was every meal of the ledger; a submission of an
\* empty or white-space-only input starts no analysis (no request) and
\* leaves the ledger as it is.
C14_NoBlankDescription ==
    /\ [](/\ \A c \in CallIds :
                calls[c].requests > 0 => Trimmed(calls[c].description)
          /\ \A i \in 1..Len(dailyLog) : Trimmed(dailyLog[i].description))
    /\ [][\A c \in CallIds :
              (Blank(mealInput) /\ handleLogMeal(c))
                  => calls' = calls /\ dailyLog' = dailyLog]_vars

\* C14 witness: a white-space-only input was submitted and refused; no
\* analysis has ever run.
C14_Witness ==
    /\ mealInput = <<" ">>
    /\ errorMessage = "Please enter a meal description."
    /\ \A c \in CallIds : calls[c] = IdleCall
    /\ dailyLog = <<>>

\* C15: an analysis that is attempting or delaying always ends: it comes to
\* rest having returned or thrown.
C15_EveryCallEnds ==
    \A c \in CallIds :
        (calls[c].pc \in {"fetch", "delay", "json"})
            ~> (calls[c].pc = "idle" /\ calls[c].outcome.kind # "none")

\* C15 witness: a call that went through all five attempts and delays and
\* came to rest with its retries exhausted.
C15_Witness ==
    \E c \in CallIds :
        /\ calls[c].pc = "idle"
        /\ calls[c].outcome.kind = "ExhaustedRetries"
        /\ calls[c].attempt = 5
        /\ Len(calls[c].history) = 5

\* C16: while an analysis is outstanding the ledger can still be cleared and
\* any rendered meal removed, and doing so leaves the analysis as it is; when
\* the analysis then returns a breakdown, its meal becomes the last element
\* of the ledger as it is at that moment, and the totals are the sums over
\* the resulting ledger.
C16_LedgerEditsDoNotCancel ==
    /\ [](InFlight # {} =>
             /\ ENABLED (handleClearLog(TRUE) /\ dailyLog' = <<>> /\ calls' = calls)
             /\ \A i \in 1..Len(dailyLog) :
                    ENABLED (/\ handleRemoveMeal(mealLogContainer[i].dataIndex)
                             /\ Len(dailyLog') = Len(dailyLog) - 1
                             /\ calls' = calls))
    /\ [][\A c \in CallIds :
              (Ends(c) /\ calls'[c].outcome.kind = "ok"
                   /\ calls'[c].outcome.value \in Breakdowns)
                  => /\ dailyLog' = Append(dailyLog,
                            [description |-> calls[c].description,
                             analysis |-> calls'[c].outcome.value])
                     /\ calls'[c].shrankDuring = (Len(dailyLog) < calls[c].startLen)
                     /\ totals' = LedgerSum(dailyLog')]_vars

\* C16 witness: the ledger lost a meal while the analysis was outstanding,
\* the analysis then returned the feast, and the ledger is that one meal.
C16_Witness ==
    /\ calls[1].pc = "idle"
    /\ calls[1].shrankDuring
    /\ calls[1].outcome = Returned(FeastBreakdown)
    /\ dailyLog = <<FeastMeal>>
    /\ totals.calories = 2500

\* C17: the remove buttons on the page carry exactly the indices 0 ..
\* length - 1 of the current ledger, in order, each beside the meal of that
\* position; and a click on any of them targets an in-range index and
\* removes the meal shown beside it.
C17_ButtonsMatchLedger ==
    /\ [](/\ Len(mealLogContainer) = Len(dailyLog)
          /\ \A i \in 1..Len(mealLogContainer) :
                 /\ parseInt(mealLogContainer[i].dataIndex) = Num(i - 1)
                 /\ mealLogContainer[i].description = dailyLog[i].description
                 /\ mealLogContainer[i].analysis = dailyLog[i].analysis)
    /\ [][dailyLog' # dailyLog =>
             \A i \in 1..Len(mealLogContainer) :
                 handleRemoveMeal(mealLogContainer[i].dataIndex) =>
                     /\ InRange(parseInt(mealLogContainer[i].dataIndex), dailyLog)
                     /\ RemovedAt(dailyLog, dailyLog', i - 1)]_vars

\* C17 witness: the list was rendered anew after a removal made while an
\* analysis was outstanding and again after its meal was pushed: one button,
\* index 0, beside the eggs.
C17_Witness ==
    /\ calls[1].pc = "idle"
    /\ calls[1].shrankDuring
    /\ calls[1].outcome = Returned(EggsBreakdown)
    /\ Len(mealLogContainer) = 1
    /\ mealLogContainer[1].dataIndex = <<"0">>
    /\ mealLogContainer[1].analysis = EggsBreakdown

\* C18: a disabled submit button is always enabled again: every analysis
\* that ends, whatever its outcome, leaves the button enabled, the button is
\* never disabled without an analysis outstanding, and (every request being
\* answered and every timer firing) a disabled button eventually becomes
\* enabled.
C18_SubmitIsReEnabled ==
    /\ [](InFlight = {} => ~logMealBtnDisabled)
    /\ [][\A c \in CallIds : Ends(c) => ~logMealBtnDisabled']_vars
    /\ logMealBtnDisabled ~> ~logMealBtnDisabled

\* C18 witness: an analysis returned null, which handleLogMeal rejected; the
\* button is enabled again.
C18_Witness ==
    /\ calls[1].pc = "idle"
    /\ calls[1].outcome = Returned(JSNull)
    /\ errorMessage = "The AI could not analyze this meal. Please try rephrasing."
    /\ ~logMealBtnDisabled

\* The latest request of call c rejected instead of delivering a response.
LastRequestRejected(call) ==
    call.history # <<>> /\ call.history[Len(call.history)] = 0

\* C19: once a request has rejected, the call is over with that error: no
\* request and no timer follows it, on whichever attempt it happens (every
\* request so far got its answer or this rejection, every response before it
\* was followed by one delay), and the step that ends the call leaves the
\* ledger unchanged.
C19_NetworkFailureNotRetried ==
    /\ [](\A c \in CallIds :
              LastRequestRejected(calls[c]) =>
                  /\ calls[c].pc = "idle"
                  /\ calls[c].outcome = Thrown("NetworkError")
                  /\ calls[c].requests = Len(calls[c].history)
                  /\ calls[c].delays = Len(calls[c].history) - 1)
    /\ [][\A c \in CallIds :
              (Ends(c) /\ LastRequestRejected(calls'[c]))
                  => dailyLog' = dailyLog]_vars

\* C19 witness: the second request of a call, made after a 429 and one
\* delay, rejected.
C19_Witness ==
    \E c \in CallIds :
        /\ calls[c].history = <<429, 0>>
        /\ calls[c].outcome = Thrown("NetworkError")
        /\ calls[c].requests = 2
        /\ calls[c].delays = 1

====
